---- MODULE Spec2Model ----
(***************************************************************************)
(* Model of randomRedisWithFuzzer.cpp: the fuzzing run of main() (temp     *)
(* file, corpus count, connect, batch loop, audit log, cleanup) and the    *)
(* helpers readLineFromFile, countFileLines, randomCommand, fuzzCommand.   *)
(*                                                                         *)
(* Strings are sequences of one-character strings; files are sequences of  *)
(* characters in which "\n" ends a line.  rand(), the hiredis calls and    *)
(* the file streams are the environment: their results are chosen with \E. *)
(***************************************************************************)
EXTENDS Integers, Sequences, FiniteSets, TLC

VARIABLES
    pc,            \* position in main()
    exitCode,      \* value returned by main(), -1 while running
    exitAt,        \* which return statement ended the run
    corpusFile,    \* contents of commandsFile
    port,          \* int port
    numBatches,    \* int numBatches
    fuzzEnabled,   \* bool fuzzEnabled
    tempCreated,   \* mkstemp has created the scratch file in this run
    tempExists,    \* the scratch file is present in the file system
    tempFile,      \* contents of the scratch file
    tempGood,      \* state of the std::ofstream tempFile (good / failed)
    outputFile,    \* contents of the audit log
    fileLength,    \* int fileLength
    context,       \* redisContext*: "none", "null", "err", "ok", "freed"
    freeCount,     \* number of redisFree calls
    batchNum,      \* loop variable batchNum
    pipelineSize,  \* int pipelineSize
    commands,      \* std::vector<std::string> commands
    handed,        \* arguments of the redisAppendCommand calls of this batch
    enqueued,      \* how many of these calls returned REDIS_OK
    replies,       \* replies read successfully in this batch
    readFailedAt,  \* which redisGetReply call of the batch failed (1-based), 0 if none
    history,       \* the commands vectors of the batches that reached the end of the loop body
    faults,        \* unchecked failures (stream writes, redisAppendCommand) so far
    fzpc,          \* fuzzCommand harness: "call", "done"
    fzCommand,     \* fuzzCommand harness: argument command
    fzEnabled,     \* fuzzCommand harness: argument fuzzEnabled
    fzOut          \* fuzzCommand harness: outcome of the call

runVars == <<pc, exitCode, exitAt, corpusFile, port, numBatches, fuzzEnabled,
             tempCreated, tempExists, tempFile, tempGood, outputFile, fileLength,
             context, freeCount, batchNum, pipelineSize, commands, handed,
             enqueued, replies, readFailedAt, history, faults>>
fzVars == <<fzpc, fzCommand, fzEnabled, fzOut>>
vars == <<runVars, fzVars>>

(***************************************************************************)
(* Bounds of the model.                                                    *)
(***************************************************************************)
MaxBatches == 2
MaxFaults == 1
MaxRand == 1
MaxStrLen == 2
MaxFuzzRand == 19

(***************************************************************************)
(* Program constants.                                                      *)
(***************************************************************************)
PipelineMod == 10

NL == "\n"
specialChars == <<"!", "@", "#", "$", "%", "^", "&", "*", "(", ")",
                  "_", "-", "+", "=", "<", ">", "?", "/">>
PingPrefix == <<"P", "I", "N", "G", " ">>
BatchPrefix == <<NL, "B", "A", "T", "C", "H", " ", "N", "U", "M", "B", "E", "R",
                 " ", "-", " ">>

(***************************************************************************)
(* Inputs of a run.                                                        *)
(***************************************************************************)
CorpusFiles == { <<>>,
                 <<"a", NL, "b">>,
                 <<"a", NL, NL>> }
Ports == {0, 6379}
SizeRands == {0, 1, 10}
CharRands == {1, 19}
Alphabet == {"a", "b"}

(***************************************************************************)
(* std::to_string(int) and operator<<(int): decimal digits.                *)
(***************************************************************************)
Digit(d) == CASE d = 0 -> "0" [] d = 1 -> "1" [] d = 2 -> "2" [] d = 3 -> "3"
              [] d = 4 -> "4" [] d = 5 -> "5" [] d = 6 -> "6" [] d = 7 -> "7"
              [] d = 8 -> "8" [] d = 9 -> "9"

RECURSIVE NatToString(_)
NatToString(n) == IF n < 10 THEN <<Digit(n)>>
                  ELSE NatToString(n \div 10) \o <<Digit(n % 10)>>

to_string(n) == IF n < 0 THEN <<"-">> \o NatToString(-n) ELSE NatToString(n)

(***************************************************************************)
(* std::getline(stream, line) on a stream with the unread characters f and *)
(* the eofbit eof.  With eofbit set the call fails and leaves line alone;  *)
(* otherwise line is erased and filled up to the next "\n" (consumed) or   *)
(* to the end of the file (which sets eofbit); the call fails when no      *)
(* character at all was extracted.                                         *)
(***************************************************************************)
\* position of the first "\n" of f at or after k, 0 if there is none
RECURSIVE FirstNL(_, _)
FirstNL(f, k) == IF k > Len(f) THEN 0
                 ELSE IF f[k] = NL THEN k
                 ELSE FirstNL(f, k + 1)

getline(f, eof, line) ==
    LET nl == FirstNL(f, 1)
    IN  IF eof THEN [ok |-> FALSE, line |-> line, rest |-> f, eof |-> TRUE]
        ELSE IF nl > 0
             THEN [ok |-> TRUE, line |-> SubSeq(f, 1, nl - 1),
                   rest |-> SubSeq(f, nl + 1, Len(f)), eof |-> FALSE]
        ELSE IF f # <<>> THEN [ok |-> TRUE, line |-> f, rest |-> <<>>, eof |-> TRUE]
        ELSE [ok |-> FALSE, line |-> <<>>, rest |-> <<>>, eof |-> TRUE]

(***************************************************************************)
(* while (std::getline(file, line)) ...: the lines the loop sees, in order.*)
(***************************************************************************)
RECURSIVE GetLinesFrom(_, _)
GetLinesFrom(f, eof) ==
    LET g == getline(f, eof, <<>>)
    IN  IF g.ok THEN <<g.line>> \o GetLinesFrom(g.rest, g.eof) ELSE <<>>

GetLines(f) == GetLinesFrom(f, FALSE)

(***************************************************************************)
(* stream << line << std::endl: the characters of the line and "\n".       *)
(***************************************************************************)
WriteLine(line) == line \o <<NL>>

RECURSIVE WriteLines(_)
WriteLines(ls) == IF ls = <<>> THEN <<>> ELSE WriteLine(Head(ls)) \o WriteLines(Tail(ls))

(***************************************************************************)
(* countFileLines, readLineFromFile, randomCommand.  r is the value that   *)
(* rand() returns.                                                         *)
(***************************************************************************)
countFileLines(file) == Len(GetLines(file))

RECURSIVE ReadLoop(_, _, _, _, _)
ReadLoop(f, eof, line, currentLine, lineNum) ==
    LET g == getline(f, eof, line)
    IN  IF g.ok /\ currentLine < lineNum
        THEN ReadLoop(g.rest, g.eof, g.line, currentLine + 1, lineNum)
        ELSE g.line

readLineFromFile(file, lineNum) == ReadLoop(file, FALSE, <<>>, 0, lineNum)

randomCommandOneBased(file, len, r) == readLineFromFile(file, (r % len) + 1)

randomCommand(file, len, r) == readLineFromFile(file, r % len)

(***************************************************************************)
(* fuzzCommand.  r1 and r2 are the values of the two rand() calls.         *)
(*                                                                         *)
(* rand() % command.length() with an empty command divides by zero, which  *)
(* is undefined: the division traps (-1 below), or, where integer division *)
(* by zero does not trap and yields quotient 0, the remainder is the       *)
(* dividend r1 itself.  std::string::insert with an index beyond the       *)
(* length throws std::out_of_range, which nothing catches.                 *)
(***************************************************************************)
Crashed == [ok |-> FALSE, value |-> <<>>, index |-> -1]

RandIndex(command, r1) ==
    IF Len(command) > 0 THEN {r1 % Len(command)} ELSE {-1, r1}

insert(s, idx, ch) == SubSeq(s, 1, idx) \o <<ch>> \o SubSeq(s, idx + 1, Len(s))

fuzzCommand(command, enabled, r1, r2) ==
    IF ~enabled THEN {[ok |-> TRUE, value |-> command, index |-> -1]}
    ELSE { IF randIndex < 0 \/ randIndex > Len(command)
           THEN Crashed
           ELSE [ok |-> TRUE,
                 value |-> insert(command, randIndex,
                                  specialChars[(r2 % Len(specialChars)) + 1]),
                 index |-> randIndex]
           : randIndex \in RandIndex(command, r1) }

(***************************************************************************)
(* main(): the state after argument parsing and srand.                     *)
(***************************************************************************)
RunInit ==
    /\ pc = "createTemp"
    /\ exitCode = -1
    /\ exitAt = "none"
    /\ corpusFile \in CorpusFiles
    /\ port \in Ports
    /\ numBatches \in -1..MaxBatches
    /\ fuzzEnabled \in BOOLEAN
    /\ tempCreated = FALSE
    /\ tempExists = FALSE
    /\ tempFile = <<>>
    /\ tempGood = FALSE
    /\ outputFile = <<>>
    /\ fileLength = 0
    /\ context = "none"
    /\ freeCount = 0
    /\ batchNum = 0
    /\ pipelineSize = 0
    /\ commands = <<>>
    /\ handed = <<>>
    /\ enqueued = 0
    /\ replies = 0
    /\ readFailedAt = 0
    /\ history = <<>>
    /\ faults = 0

FzIdle ==
    /\ fzpc = "idle"
    /\ fzCommand = <<>>
    /\ fzEnabled = FALSE
    /\ fzOut = Crashed

Init == RunInit /\ FzIdle

(***************************************************************************)
(* return <code> from main(), and abnormal termination.                    *)
(***************************************************************************)
Return(code, at) ==
    /\ pc' = "exited"
    /\ exitCode' = code
    /\ exitAt' = at

redisFree ==
    /\ context' = "freed"
    /\ freeCount' = freeCount + 1

(***************************************************************************)
(* createTempFile (mkstemp) and createOutputFile (only a name).            *)
(***************************************************************************)
CreateTempFile ==
    /\ pc = "createTemp"
    /\ \E fdOk \in BOOLEAN :
         IF fdOk
         THEN /\ tempCreated' = TRUE
              /\ tempExists' = TRUE
              /\ tempFile' = <<>>
              /\ pc' = "countLines"
              /\ UNCHANGED <<exitCode, exitAt>>
         ELSE /\ Return(1, "mkstemp")
              /\ UNCHANGED <<tempCreated, tempExists, tempFile>>
    /\ UNCHANGED <<corpusFile, port, numBatches, fuzzEnabled, tempGood, outputFile,
                   fileLength, context, freeCount, batchNum, pipelineSize, commands,
                   handed, enqueued, replies, history, faults, readFailedAt, fzVars>>

(***************************************************************************)
(* int fileLength = countFileLines(commandsFile); if (fileLength == 0) ... *)
(***************************************************************************)
CountLinesNoCheck ==
    /\ pc = "countLines"
    /\ fileLength' = countFileLines(corpusFile)
    /\ pc' = "connect"
    /\ UNCHANGED <<exitCode, exitAt, corpusFile, port, numBatches, fuzzEnabled,
                   tempCreated, tempExists, tempFile, tempGood, outputFile, context,
                   freeCount, batchNum, pipelineSize, commands, handed, enqueued,
                   replies, history, faults, readFailedAt, fzVars>>

CountLines ==
    /\ pc = "countLines"
    /\ fileLength' = countFileLines(corpusFile)
    /\ IF fileLength' = 0
       THEN Return(1, "emptyCorpus")
       ELSE /\ pc' = "connect"
            /\ UNCHANGED <<exitCode, exitAt>>
    /\ UNCHANGED <<corpusFile, port, numBatches, fuzzEnabled, tempCreated, tempExists,
                   tempFile, tempGood, outputFile, context, freeCount, batchNum,
                   pipelineSize, commands, handed, enqueued, replies, history, faults, readFailedAt, fzVars>>

(***************************************************************************)
(* redisConnectWithTimeout: a null context, a context with err set, or a   *)
(* connected context.  batchNum = 1 is the loop's initialisation.          *)
(***************************************************************************)
ConnectNoReturn ==
    /\ pc = "connect"
    /\ \E result \in {"null", "err", "ok"} :
         CASE result = "null" ->
                /\ context' = "null"
                /\ Return(1, "connNull")
                /\ UNCHANGED <<freeCount, batchNum>>
           [] result = "err" ->
                /\ redisFree
                /\ batchNum' = 1
                /\ pc' = "loopHead"
                /\ UNCHANGED <<exitCode, exitAt>>
           [] result = "ok" ->
                /\ context' = "ok"
                /\ batchNum' = 1
                /\ pc' = "loopHead"
                /\ UNCHANGED <<freeCount, exitCode, exitAt>>
    /\ UNCHANGED <<corpusFile, port, numBatches, fuzzEnabled, tempCreated, tempExists,
                   tempFile, tempGood, outputFile, fileLength, pipelineSize, commands,
                   handed, enqueued, replies, history, faults, readFailedAt, fzVars>>

Connect ==
    /\ pc = "connect"
    /\ \E result \in {"null", "err", "ok"} :
         CASE result = "null" ->
                /\ context' = "null"
                /\ Return(1, "connNull")
                /\ UNCHANGED <<freeCount, batchNum>>
           [] result = "err" ->
                /\ redisFree
                /\ Return(1, "connErr")
                /\ UNCHANGED batchNum
           [] result = "ok" ->
                /\ context' = "ok"
                /\ batchNum' = 1
                /\ pc' = "loopHead"
                /\ UNCHANGED <<freeCount, exitCode, exitAt>>
    /\ UNCHANGED <<corpusFile, port, numBatches, fuzzEnabled, tempCreated, tempExists,
                   tempFile, tempGood, outputFile, fileLength, pipelineSize, commands,
                   handed, enqueued, replies, history, faults, readFailedAt, fzVars>>

(***************************************************************************)
(* Loop exit: redisFree(context); std::remove(tempFileName); return 0.     *)
(***************************************************************************)
LoopExit ==
    /\ pc = "loopHead"
    /\ ~(batchNum <= numBatches)
    /\ redisFree
    /\ tempExists' = FALSE
    /\ Return(0, "normal")
    /\ UNCHANGED <<corpusFile, port, numBatches, fuzzEnabled, tempCreated, tempFile,
                   tempGood, outputFile, fileLength, batchNum, pipelineSize, commands,
                   handed, enqueued, replies, history, faults, readFailedAt, fzVars>>

(***************************************************************************)
(* Top of the loop body: std::ofstream tempFile(tempFileName, trunc), and  *)
(* int pipelineSize = (rand() % 10) + 1 with r the value of rand().        *)
(***************************************************************************)
PipelineSizeZeroBased(r) == r % PipelineMod

PipelineSize(r) == (r % PipelineMod) + 1

OpenTempFailLeak ==
    /\ pc = "loopHead"
    /\ batchNum <= numBatches
    /\ Return(1, "tempOpen")
    /\ UNCHANGED <<corpusFile, port, numBatches, fuzzEnabled, tempCreated, tempExists,
                   tempFile, tempGood, outputFile, fileLength, context, freeCount,
                   batchNum, pipelineSize, commands, handed, enqueued, replies,
                   history, faults, readFailedAt, fzVars>>

OpenTempFail ==
    /\ pc = "loopHead"
    /\ batchNum <= numBatches
    /\ redisFree
    /\ Return(1, "tempOpen")
    /\ UNCHANGED <<corpusFile, port, numBatches, fuzzEnabled, tempCreated, tempExists,
                   tempFile, tempGood, outputFile, fileLength, batchNum, pipelineSize,
                   commands, handed, enqueued, replies, history, faults, readFailedAt, fzVars>>

StartBatch ==
    /\ pc = "loopHead"
    /\ batchNum <= numBatches
    /\ tempExists' = TRUE
    /\ tempFile' = <<>>
    /\ tempGood' = TRUE
    /\ \E r \in SizeRands : pipelineSize' = PipelineSize(r)
    /\ commands' = <<>>
    /\ handed' = <<>>
    /\ enqueued' = 0
    /\ replies' = 0
    /\ pc' = "build"
    /\ UNCHANGED <<exitCode, exitAt, corpusFile, port, numBatches, fuzzEnabled,
                   tempCreated, outputFile, fileLength, context, freeCount, batchNum,
                   history, faults, readFailedAt, fzVars>>

(***************************************************************************)
(* tempFile << line << std::endl.  The result is not checked: the write    *)
(* succeeds, or it fails and leaves the stream failed, and a failed stream *)
(* writes nothing more.                                                    *)
(***************************************************************************)
TempWrite(line) ==
    \/ /\ tempGood
       /\ tempFile' = tempFile \o WriteLine(line)
       /\ UNCHANGED <<tempGood, faults>>
    \/ /\ tempGood
       /\ faults < MaxFaults
       /\ faults' = faults + 1
       /\ tempGood' = FALSE
       /\ UNCHANGED tempFile
    \/ /\ ~tempGood
       /\ UNCHANGED <<tempFile, tempGood, faults>>

(***************************************************************************)
(* One iteration of for (i < pipelineSize): randomCommand, fuzzCommand,    *)
(* write to the scratch file, push_back.  i is commands.size().            *)
(***************************************************************************)
BuildCommand ==
    /\ pc = "build"
    /\ Len(commands) < pipelineSize
    /\ \E rl \in 0..MaxRand, rp \in 0..MaxRand, rc \in CharRands :
         \E fuzzedCmd \in fuzzCommand(randomCommand(corpusFile, fileLength, rl),
                                      fuzzEnabled, rp, rc) :
            IF fuzzedCmd.ok
            THEN /\ TempWrite(fuzzedCmd.value)
                 /\ commands' = Append(commands, fuzzedCmd.value)
                 /\ UNCHANGED <<pc, exitAt>>
            ELSE /\ pc' = "crashed"
                 /\ exitAt' = "crash"
                 /\ UNCHANGED <<tempFile, tempGood, commands, faults>>
    /\ UNCHANGED <<exitCode, corpusFile, port, numBatches, fuzzEnabled, tempCreated,
                   tempExists, outputFile, fileLength, context, freeCount, batchNum,
                   pipelineSize, handed, enqueued, replies, history, readFailedAt, fzVars>>

(***************************************************************************)
(* pingCmd = "PING " + std::to_string(port); write, push_back, close.      *)
(***************************************************************************)
PingCmd(p) == PingPrefix \o to_string(p)

AddPing ==
    /\ pc = "build"
    /\ ~(Len(commands) < pipelineSize)
    /\ TempWrite(PingCmd(port))
    /\ commands' = Append(commands, PingCmd(port))
    /\ pc' = "append"
    /\ UNCHANGED <<exitCode, exitAt, corpusFile, port, numBatches, fuzzEnabled,
                   tempCreated, tempExists, outputFile, fileLength, context, freeCount,
                   batchNum, pipelineSize, handed, enqueued, replies, history, readFailedAt, fzVars>>

(***************************************************************************)
(* for (cmd : commands) redisAppendCommand(context, cmd.c_str()); the      *)
(* result (REDIS_OK or REDIS_ERR) is not looked at.                        *)
(***************************************************************************)
AppendCommand ==
    /\ pc = "append"
    /\ Len(handed) < Len(commands)
    /\ handed' = Append(handed, commands[Len(handed) + 1])
    /\ \/ /\ enqueued' = enqueued + 1
          /\ UNCHANGED faults
       \/ /\ faults < MaxFaults
          /\ faults' = faults + 1
          /\ UNCHANGED enqueued
    /\ pc' = IF Len(handed') < Len(commands) THEN "append" ELSE "getReply"
    /\ UNCHANGED <<exitCode, exitAt, corpusFile, port, numBatches, fuzzEnabled,
                   tempCreated, tempExists, tempFile, tempGood, outputFile, fileLength,
                   context, freeCount, batchNum, pipelineSize, commands, replies,
                   history, readFailedAt, fzVars>>

(***************************************************************************)
(* for (i < commands.size()): redisGetReply.  REDIS_OK: free the reply and *)
(* go on.  Otherwise success = false; break; redisFree(context); return 1. *)
(***************************************************************************)
GetReplyOkSkipsLast ==
    /\ pc = "getReply"
    /\ replies < Len(commands)
    /\ replies' = replies + 1
    /\ pc' = IF replies' < Len(commands) - 1 THEN "getReply" ELSE "log"
    /\ UNCHANGED <<exitCode, exitAt, corpusFile, port, numBatches, fuzzEnabled,
                   tempCreated, tempExists, tempFile, tempGood, outputFile, fileLength,
                   context, freeCount, batchNum, pipelineSize, commands, handed,
                   enqueued, history, faults, readFailedAt, fzVars>>

GetReplyOk ==
    /\ pc = "getReply"
    /\ replies < Len(commands)
    /\ replies' = replies + 1
    /\ pc' = IF replies' < Len(commands) THEN "getReply" ELSE "log"
    /\ UNCHANGED <<exitCode, exitAt, corpusFile, port, numBatches, fuzzEnabled,
                   tempCreated, tempExists, tempFile, tempGood, outputFile, fileLength,
                   context, freeCount, batchNum, pipelineSize, commands, handed,
                   enqueued, history, faults, readFailedAt, fzVars>>

GetReplyFailNoBreak ==
    /\ pc = "getReply"
    /\ replies < Len(commands)
    /\ readFailedAt' = replies + 1
    /\ replies' = replies + 1
    /\ pc' = IF replies' < Len(commands) THEN "getReply" ELSE "log"
    /\ UNCHANGED <<exitCode, exitAt, corpusFile, port, numBatches, fuzzEnabled,
                   tempCreated, tempExists, tempFile, tempGood, outputFile, fileLength,
                   context, freeCount, batchNum, pipelineSize, commands, handed,
                   enqueued, history, faults, fzVars>>

GetReplyFail ==
    /\ pc = "getReply"
    /\ replies < Len(commands)
    /\ readFailedAt' = replies + 1
    /\ redisFree
    /\ Return(1, "replyFail")
    /\ UNCHANGED <<corpusFile, port, numBatches, fuzzEnabled, tempCreated, tempExists,
                   tempFile, tempGood, outputFile, fileLength, batchNum, pipelineSize,
                   commands, handed, enqueued, replies, history, faults, fzVars>>

(***************************************************************************)
(* std::ofstream outputFile(outputFileName, app): open failure.            *)
(***************************************************************************)
LogOpenFailReturnsZero ==
    /\ pc = "log"
    /\ redisFree
    /\ Return(0, "logOpen")
    /\ UNCHANGED <<corpusFile, port, numBatches, fuzzEnabled, tempCreated, tempExists,
                   tempFile, tempGood, outputFile, fileLength, batchNum, pipelineSize,
                   commands, handed, enqueued, replies, history, faults, readFailedAt, fzVars>>

LogOpenFail ==
    /\ pc = "log"
    /\ redisFree
    /\ Return(1, "logOpen")
    /\ UNCHANGED <<corpusFile, port, numBatches, fuzzEnabled, tempCreated, tempExists,
                   tempFile, tempGood, outputFile, fileLength, batchNum, pipelineSize,
                   commands, handed, enqueued, replies, history, faults, readFailedAt, fzVars>>

(***************************************************************************)
(* outputFile << "\nBATCH NUMBER - " << batchNum << std::endl; then every  *)
(* line that getline reads from the scratch file, each with std::endl;     *)
(* close; batchNum++.  The open of the scratch file for reading and the    *)
(* writes are not checked: with readOk false no line is read, and the      *)
(* first written writes succeed (the header counts as one) before the      *)
(* stream fails.                                                           *)
(***************************************************************************)
BatchHeader(n) == BatchPrefix \o to_string(n) \o <<NL>>

LogBatchTrunc ==
    /\ pc = "log"
    /\ \E readOk \in BOOLEAN :
         LET lines == IF readOk THEN GetLines(tempFile) ELSE <<>>
         IN  \E written \in 0..(1 + Len(lines)) :
                /\ outputFile' =
                     (IF written = 0 THEN <<>>
                      ELSE BatchHeader(batchNum) \o WriteLines(SubSeq(lines, 1, written - 1)))
                /\ faults' = faults + (IF readOk THEN 0 ELSE 1)
                                   + (IF written = 1 + Len(lines) THEN 0 ELSE 1)
                /\ faults' <= MaxFaults
    /\ history' = Append(history, commands)
    /\ batchNum' = batchNum + 1
    /\ pc' = "loopHead"
    /\ UNCHANGED <<exitCode, exitAt, corpusFile, port, numBatches, fuzzEnabled,
                   tempCreated, tempExists, tempFile, tempGood, fileLength, context,
                   freeCount, pipelineSize, commands, handed, enqueued, replies, readFailedAt, fzVars>>

LogBatch ==
    /\ pc = "log"
    /\ \E readOk \in BOOLEAN :
         LET lines == IF readOk THEN GetLines(tempFile) ELSE <<>>
         IN  \E written \in 0..(1 + Len(lines)) :
                /\ outputFile' = outputFile \o
                     (IF written = 0 THEN <<>>
                      ELSE BatchHeader(batchNum) \o WriteLines(SubSeq(lines, 1, written - 1)))
                /\ faults' = faults + (IF readOk THEN 0 ELSE 1)
                                   + (IF written = 1 + Len(lines) THEN 0 ELSE 1)
                /\ faults' <= MaxFaults
    /\ history' = Append(history, commands)
    /\ batchNum' = batchNum + 1
    /\ pc' = "loopHead"
    /\ UNCHANGED <<exitCode, exitAt, corpusFile, port, numBatches, fuzzEnabled,
                   tempCreated, tempExists, tempFile, tempGood, fileLength, context,
                   freeCount, pipelineSize, commands, handed, enqueued, replies, readFailedAt, fzVars>>

Next ==
    \/ CreateTempFile
    \/ CountLines
    \/ Connect
    \/ LoopExit
    \/ OpenTempFail
    \/ StartBatch
    \/ BuildCommand
    \/ AddPing
    \/ AppendCommand
    \/ GetReplyOk
    \/ GetReplyFail
    \/ LogOpenFail
    \/ LogBatch

Spec == Init /\ [][Next]_vars

(***************************************************************************)
(* fuzzCommand on its own: every command of up to MaxStrLen characters,    *)
(* both values of fuzzEnabled, every pair of rand() values up to           *)
(* MaxFuzzRand.                                                            *)
(***************************************************************************)
Strings == UNION { [1..k -> Alphabet] : k \in 0..MaxStrLen }

RunIdle ==
    /\ pc = "idle"
    /\ exitCode = -1
    /\ exitAt = "none"
    /\ corpusFile = <<>>
    /\ port = 0
    /\ numBatches = 0
    /\ fuzzEnabled = FALSE
    /\ tempCreated = FALSE
    /\ tempExists = FALSE
    /\ tempFile = <<>>
    /\ tempGood = FALSE
    /\ outputFile = <<>>
    /\ fileLength = 0
    /\ context = "none"
    /\ freeCount = 0
    /\ batchNum = 0
    /\ pipelineSize = 0
    /\ commands = <<>>
    /\ handed = <<>>
    /\ enqueued = 0
    /\ replies = 0
    /\ readFailedAt = 0
    /\ history = <<>>
    /\ faults = 0

InitFuzz ==
    /\ RunIdle
    /\ fzpc = "call"
    /\ fzCommand \in Strings
    /\ fzEnabled \in BOOLEAN
    /\ fzOut = Crashed

FuzzCall ==
    /\ fzpc = "call"
    /\ \E r1 \in 0..MaxFuzzRand, r2 \in 0..MaxFuzzRand :
         fzOut' \in fuzzCommand(fzCommand, fzEnabled, r1, r2)
    /\ fzpc' = "done"
    /\ UNCHANGED <<fzCommand, fzEnabled, runVars>>

NextFuzz == FuzzCall

SpecFuzz == InitFuzz /\ [][NextFuzz]_vars

(***************************************************************************)
(* Vocabulary of the properties.                                           *)
(***************************************************************************)
IsSuffix(a, b) == Len(a) <= Len(b) /\ SubSeq(b, Len(b) - Len(a) + 1, Len(b)) = a

RemoveAt(s, k) == SubSeq(s, 1, k - 1) \o SubSeq(s, k + 1, Len(s))

SpecialSet == { specialChars[k] : k \in 1..Len(specialChars) }

DigitValue(c) == CASE c = "0" -> 0 [] c = "1" -> 1 [] c = "2" -> 2 [] c = "3" -> 3
                   [] c = "4" -> 4 [] c = "5" -> 5 [] c = "6" -> 6 [] c = "7" -> 7
                   [] c = "8" -> 8 [] c = "9" -> 9 [] OTHER -> -1

RECURSIVE DecimalValue(_)
DecimalValue(ds) ==
    IF ds = <<>> THEN 0
    ELSE 10 * DecimalValue(SubSeq(ds, 1, Len(ds) - 1)) + DigitValue(ds[Len(ds)])

\* ds is the decimal numeral of the natural number n
IsDecimalOf(ds, n) ==
    /\ Len(ds) >= 1
    /\ \A k \in 1..Len(ds) : DigitValue(ds[k]) >= 0
    /\ (Len(ds) > 1 => ds[1] # "0")
    /\ DecimalValue(ds) = n

\* cmd is the liveness probe "PING <p>"
IsProbe(cmd, p) ==
    /\ Len(cmd) > 5
    /\ SubSeq(cmd, 1, 5) = <<"P", "I", "N", "G", " ">>
    /\ IsDecimalOf(SubSeq(cmd, 6, Len(cmd)), p)

\* the line "BATCH NUMBER - <n>"
HeaderLine(n) == <<"B", "A", "T", "C", "H", " ", "N", "U", "M", "B", "E", "R",
                   " ", "-", " ">> \o to_string(n)

\* the audit log has no header line of batch n
NoHeaderFor(n) ==
    LET logLines == GetLines(outputFile)
    IN  \A k \in 1..Len(logLines) : logLines[k] # HeaderLine(n)

\* a blank line, the header of batch n, then one line per command
LogEntry(n, cmds) == <<NL>> \o HeaderLine(n) \o <<NL>> \o WriteLines(cmds)

RECURSIVE LogOf(_, _)
LogOf(h, first) ==
    IF h = <<>> THEN <<>>
    ELSE LogEntry(first, Head(h)) \o LogOf(Tail(h), first + 1)

\* the batch just logged: the loop is back at its head and the scratch file,
\* the commands handed to the connection and the log are those of batch batchNum - 1
BatchLogged == pc = "loopHead" /\ batchNum > 1

\* the commands vector holds a complete batch
BatchBuilt == pc \in {"append", "getReply", "log"}

(***************************************************************************)
(* C1: for every batch that is logged, the lines of the scratch file are,  *)
(* in order, exactly the commands handed to the connection, and the audit  *)
(* log ends with that batch's header followed by exactly these commands.   *)
(* Stated as the claim; violated when a write the code does not check      *)
(* fails (see C13).                                                        *)
(***************************************************************************)
C1_OrderInvariant ==
    BatchLogged =>
        /\ GetLines(tempFile) = handed
        /\ IsSuffix(LogEntry(batchNum - 1, handed), outputFile)

(***************************************************************************)
(* C2: when the N-th redisGetReply of a batch fails, exactly N-1 replies   *)
(* of the batch were consumed, the run has ended with exit status 1, the   *)
(* failed batch has no header in the audit log and is not among the        *)
(* completed batches, and no further step (read, build, send, log) is      *)
(* possible.                                                               *)
(***************************************************************************)
C2_ReadFailureAborts ==
    readFailedAt > 0 =>
        /\ pc = "exited"
        /\ exitCode = 1
        /\ readFailedAt \in 1..Len(commands)
        /\ replies = readFailedAt - 1
        /\ Len(history) = batchNum - 1
        /\ NoHeaderFor(batchNum)
        /\ ~ENABLED Next

C2_Witness ==
    /\ pc = "exited"
    /\ readFailedAt = 2
    /\ batchNum = 2
    /\ Len(commands) = 3
    /\ Len(history) = 1

(***************************************************************************)
(* C3: once mkstemp has created the scratch file, every return from main   *)
(* leaves the scratch file removed.  Stated as the claim; the code removes *)
(* the file only on the path that returns 0.                               *)
(***************************************************************************)
C3_ScratchRemovedOnExit ==
    (pc = "exited" /\ tempCreated) => ~tempExists

(***************************************************************************)
(* C4: every return from main that follows a non-null result of            *)
(* redisConnectWithTimeout (connection error with a context, scratch-open  *)
(* failure, reply read failure, log-open failure, normal completion) has   *)
(* released the context with redisFree, exactly once.                      *)
(***************************************************************************)
AfterHandle == {"connErr", "tempOpen", "replyFail", "logOpen", "normal"}

C4_ConnectionReleased ==
    (pc = "exited" /\ exitAt \in AfterHandle) =>
        /\ context = "freed"
        /\ freeCount = 1

C4_Witness ==
    /\ pc = "exited"
    /\ exitAt = "tempOpen"
    /\ batchNum = 2
    /\ context = "freed"

(***************************************************************************)
(* C5: (rand() % 10) + 1 lies in 1..10 for every value of rand(); every    *)
(* complete batch, the current one and each completed one, has             *)
(* pipelineSize + 1 commands with pipelineSize in 1..10, and its last      *)
(* command is "PING <port>" with the decimal numeral of the configured     *)
(* port, with and without fuzzing.                                         *)
(***************************************************************************)
C5_BatchShape ==
    /\ \A r \in 0..MaxFuzzRand : PipelineSize(r) \in 1..10
    /\ BatchBuilt =>
          /\ pipelineSize \in 1..10
          /\ Len(commands) = pipelineSize + 1
          /\ IsProbe(commands[Len(commands)], port)
    /\ \A k \in 1..Len(history) :
          /\ Len(history[k]) \in 2..11
          /\ IsProbe(history[k][Len(history[k])], port)

C5_Witness ==
    /\ pc = "log"
    /\ fuzzEnabled
    /\ port = 6379
    /\ pipelineSize = 2
    /\ Len(commands) = 3
    /\ commands[1] # commands[2]
    /\ Len(history) = 1

(***************************************************************************)
(* C6: fuzzCommand(s, true) returns s with exactly one character of the    *)
(* special-character set inserted (length Len(s) + 1, the characters of s  *)
(* kept in order), for every s, the empty string included;                 *)
(* fuzzCommand(s, false) returns s.  Stated as the claim; violated for the *)
(* empty string, where rand() % 0 is evaluated.                            *)
(***************************************************************************)
C6_MutateContract ==
    fzpc = "done" =>
        IF fzEnabled
        THEN /\ fzOut.ok
             /\ Len(fzOut.value) = Len(fzCommand) + 1
             /\ \E k \in 1..Len(fzOut.value) :
                   /\ fzOut.value[k] \in SpecialSet
                   /\ RemoveAt(fzOut.value, k) = fzCommand
        ELSE /\ fzOut.ok
             /\ fzOut.value = fzCommand

(***************************************************************************)
(* C7: with fuzzing enabled the insertion indices that the draw can        *)
(* produce are exactly 0..Len(command), Len(command) included, and for the *)
(* empty command the only outcome is index 0 (no division by zero).        *)
(* Stated as the claim; the code draws rand() % command.length().          *)
(***************************************************************************)
C7_InsertionIndexRange ==
    (fzpc = "call" /\ fzEnabled) =>
        UNION { RandIndex(fzCommand, r1) : r1 \in 0..MaxFuzzRand } = 0..Len(fzCommand)

(***************************************************************************)
(* C8: once a reply of a batch has been read, every command of the batch   *)
(* has been handed to redisAppendCommand and enqueued by it, and a batch   *)
(* that goes on to the audit log has read exactly one reply per command.   *)
(* Stated as the claim; violated when redisAppendCommand fails, which the  *)
(* code does not notice (see C9).                                          *)
(***************************************************************************)
C8_PipelineOrder ==
    /\ (BatchBuilt /\ replies >= 1) =>
          /\ Len(handed) = Len(commands)
          /\ enqueued = Len(commands)
    /\ pc = "log" => replies = Len(commands)

(***************************************************************************)
(* C9: when a redisAppendCommand of the batch has failed, the batch is     *)
(* never logged and no later batch starts: the run can only be appending,  *)
(* reading, about to open the log, or ended with exit status 1.  Stated as *)
(* the claim; the code ignores the result of redisAppendCommand.           *)
(***************************************************************************)
SendFailed == enqueued < Len(handed)

C9_SendFailureAborts ==
    SendFailed =>
        /\ pc \in {"append", "getReply", "log", "exited"}
        /\ (pc = "exited" => exitCode = 1)

(***************************************************************************)
(* C10: when the run has ended, the audit log is exactly the entries of    *)
(* the k batches that completed, in order: for i = 1..k a blank line, the  *)
(* line "BATCH NUMBER - i", and the commands of batch i, one per line in   *)
(* send order.  Stated as the claim; violated when a write to the log or   *)
(* the scratch file fails, which the code does not notice (see C13).       *)
(***************************************************************************)
C10_AuditLogFormat ==
    pc = "exited" => outputFile = LogOf(history, 1)

(***************************************************************************)
(* C11: with a commands file of zero lines the run ends at the empty check *)
(* with exit status 1 and no connection is ever opened; when               *)
(* redisConnectWithTimeout fails (null context or err set) the run ends    *)
(* with exit status 1.  In all three cases no batch was started: no        *)
(* command was built or handed to the connection and the audit log is      *)
(* empty.                                                                  *)
(***************************************************************************)
NeverStarted ==
    /\ batchNum = 0
    /\ commands = <<>>
    /\ handed = <<>>
    /\ enqueued = 0
    /\ replies = 0
    /\ history = <<>>
    /\ outputFile = <<>>

C11_StartupErrors ==
    /\ (pc # "idle" /\ countFileLines(corpusFile) = 0) =>
          /\ pc \in {"createTemp", "countLines", "exited"}
          /\ context = "none"
          /\ freeCount = 0
          /\ NeverStarted
          /\ (pc = "exited" => exitCode = 1)
    /\ exitAt \in {"emptyCorpus", "connNull", "connErr"} =>
          /\ pc = "exited"
          /\ exitCode = 1
          /\ NeverStarted

C11_Witness ==
    /\ pc = "exited"
    /\ exitAt = "emptyCorpus"
    /\ tempCreated
    /\ numBatches = 2
    /\ context = "none"

(***************************************************************************)
(* C12: for a commands file of N >= 1 lines, randomCommand returns, for    *)
(* every value r of rand(), exactly the line of index r % N, and every     *)
(* line index 0..N-1 is returned for some r; without fuzzing every command *)
(* of a batch before the final PING is a line of the commands file.        *)
(***************************************************************************)
CorpusLines == GetLines(corpusFile)

C12_SampleIsCorpusLine ==
    /\ pc = "connect" =>
          /\ fileLength = Len(CorpusLines)
          /\ fileLength >= 1
          /\ \A r \in 0..MaxFuzzRand :
                randomCommand(corpusFile, fileLength, r)
                    = CorpusLines[(r % fileLength) + 1]
          /\ \A k \in 1..fileLength : \E r \in 0..MaxRand :
                /\ r % fileLength = k - 1
                /\ randomCommand(corpusFile, fileLength, r) = CorpusLines[k]
    /\ (~fuzzEnabled /\ pc \in {"build", "append", "getReply", "log"}) =>
          \A k \in 1..Len(commands) :
             k <= pipelineSize => \E j \in 1..Len(CorpusLines) : commands[k] = CorpusLines[j]

C12_Witness ==
    /\ pc = "log"
    /\ ~fuzzEnabled
    /\ pipelineSize = 2
    /\ commands[1] = <<"a">>
    /\ commands[2] = <<"b">>
    /\ Len(history) = 1

(***************************************************************************)
(* C13: every step in which an open or a write of the scratch file or of   *)
(* the audit log fails ends the run in that very step with exit status 1.  *)
(* Stated as the claim; violated because the code checks the opens for     *)
(* writing only, not the writes nor the open for reading.                  *)
(***************************************************************************)
\* the scratch stream goes from good to failed
ScratchWriteFails == tempGood /\ ~tempGood'

\* the batch is logged with something else than its header and the lines of
\* the scratch file
LogWriteFails ==
    /\ pc = "log"
    /\ pc' # "exited"
    /\ outputFile' # outputFile \o LogEntry(batchNum, GetLines(tempFile))

OpenFails == exitAt' # exitAt /\ exitAt' \in {"mkstemp", "tempOpen", "logOpen"}

C13_IoFailureAborts ==
    [][(ScratchWriteFails \/ LogWriteFails \/ OpenFails)
          => (pc' = "exited" /\ exitCode' = 1)]_vars

(***************************************************************************)
(* C14: the audit log only grows at its end: in every step the old content *)
(* is a prefix of the new content, only the logging step of a batch        *)
(* changes it, and a step that ends the run leaves it alone; so when batch *)
(* k+1 fails, what batches 1..k wrote is still there (all k entries when   *)
(* no write failed).                                                       *)
(***************************************************************************)
IsPrefix(a, b) == Len(a) <= Len(b) /\ SubSeq(b, 1, Len(a)) = a

C14_LogAppendOnly ==
    [][/\ IsPrefix(outputFile, outputFile')
       /\ (outputFile' # outputFile => pc = "log" /\ pc' = "loopHead")
       /\ (pc' \in {"exited", "crashed"} =>
             /\ outputFile' = outputFile
             /\ history' = history
             /\ (faults = 0 /\ batchNum >= 1 =>
                   /\ outputFile' = LogOf(history, 1)
                   /\ Len(history) = batchNum - 1))]_vars

C14_Witness ==
    /\ pc = "exited"
    /\ exitAt = "replyFail"
    /\ batchNum = 2
    /\ Len(history) = 1
    /\ outputFile = LogEntry(1, history[1])

(***************************************************************************)
(* C15: batches run one after the other, each as build, send, read, log.   *)
(* While batch n is in progress exactly the batches 1..n-1 are logged;     *)
(* nothing is handed to the connection while the batch is being built, no  *)
(* reply is read before the whole batch was handed over, the batch is      *)
(* logged (and its header appears in the audit log) only after one reply   *)
(* per command was read, and when the loop is back at its head every       *)
(* command handed over has had its reply read, so the next batch starts    *)
(* with nothing outstanding.                                               *)
(***************************************************************************)
InBatch == pc \in {"build", "append", "getReply", "log"}

C15_BatchesSequential ==
    /\ InBatch =>
          /\ batchNum \in 1..numBatches
          /\ Len(history) = batchNum - 1
    /\ pc = "build" =>
          /\ handed = <<>>
          /\ enqueued = 0
          /\ replies = 0
          /\ Len(commands) <= pipelineSize
    /\ pc = "append" =>
          /\ Len(commands) = pipelineSize + 1
          /\ Len(handed) < Len(commands)
          /\ handed = SubSeq(commands, 1, Len(handed))
          /\ replies = 0
    /\ pc = "getReply" =>
          /\ handed = commands
          /\ replies < Len(commands)
          /\ NoHeaderFor(batchNum)
    /\ pc = "log" =>
          /\ handed = commands
          /\ replies = Len(commands)
          /\ NoHeaderFor(batchNum)
    /\ pc = "loopHead" =>
          /\ Len(history) = batchNum - 1
          /\ replies = Len(handed)
          /\ enqueued <= replies
          /\ (batchNum > 1 =>
                /\ handed = commands
                /\ history[batchNum - 1] = commands)

C15_Witness ==
    /\ pc = "append"
    /\ batchNum = 2
    /\ Len(handed) = 1
    /\ Len(history) = 1
    /\ outputFile = LogEntry(1, history[1])
    /\ history[1] # <<>>

(***************************************************************************)
(* C16: the run always goes on until it is closed: every state in which    *)
(* main has not returned has a next step.  A run that returns from the end *)
(* of main has executed and logged exactly the batches 1..numBatches (none *)
(* when numBatches <= 0, which then closes with status 0 as soon as the    *)
(* connection is up).  Stated as the claim; violated because the process   *)
(* can die inside fuzzCommand (see C6, C7) without ever returning.         *)
(***************************************************************************)
Closed == pc = "exited"

Max0(n) == IF n > 0 THEN n ELSE 0

C16_RunReachesClosed ==
    /\ (pc # "idle" /\ ~Closed) => ENABLED Next
    /\ (Closed /\ exitAt = "normal") =>
          /\ Len(history) = Max0(numBatches)
          /\ batchNum = Max0(numBatches) + 1
          /\ (faults = 0 => outputFile = LogOf(history, 1))
    /\ (numBatches <= 0 /\ pc = "loopHead") =>
          /\ history = <<>>
          /\ ~ENABLED StartBatch
          /\ ENABLED LoopExit

(***************************************************************************)
(* C17: redisFree is called at most once in a run, and once it was called  *)
(* the run has ended and no step follows: wherever a command can be handed *)
(* over, a reply read or the connection released, the context is the live, *)
(* never released one.                                                     *)
(***************************************************************************)
UsesConnection == pc \in {"loopHead", "build", "append", "getReply", "log"}

C17_ReleasedOnceNeverReused ==
    /\ freeCount <= 1
    /\ (freeCount = 1) <=> (context = "freed")
    /\ UsesConnection =>
          /\ context = "ok"
          /\ freeCount = 0
    /\ context = "freed" =>
          /\ pc = "exited"
          /\ ~ENABLED Next

C17_Witness ==
    /\ context = "freed"
    /\ freeCount = 1
    /\ exitAt = "replyFail"
    /\ Len(handed) = 2
    /\ replies = 1

(***************************************************************************)
(* C18: main returns 0 or 1; it returns 0 exactly when the commands file   *)
(* has at least one line, the connection was established and every batch   *)
(* 1..numBatches was completed (built, all replies read, log opened), and  *)
(* a process that dies inside fuzzCommand does not report success.         *)
(***************************************************************************)
AllBatchesDone ==
    /\ countFileLines(corpusFile) > 0
    /\ batchNum >= 1
    /\ Len(history) = Max0(numBatches)
    /\ batchNum = Max0(numBatches) + 1
    /\ readFailedAt = 0

C18_ExitStatus ==
    /\ pc = "exited" =>
          /\ exitCode \in {0, 1}
          /\ (exitCode = 0) <=> AllBatchesDone
          /\ (exitCode = 0) <=> (exitAt = "normal")
    /\ pc = "crashed" => exitCode # 0

C18_Witness ==
    /\ pc = "exited"
    /\ exitCode = 0
    /\ numBatches = 2
    /\ Len(history) = 2
    /\ context = "freed"

====
